---- MODULE Spec2Model ----
(***************************************************************************)
(* A model of jsl/fields.py: the field-node hierarchy, the recursive       *)
(* schema compiler get_definitions_and_schema, the traversal generator     *)
(* walk, and the resolution of DocumentField references.                   *)
(*                                                                         *)
(* Python values are represented as follows.  A dict is a function; the    *)
(* empty dict and None passed as `definitions` are both the empty          *)
(* function (the code only ever tests `definitions` for truthiness).  An   *)
(* attribute that may be None is a sequence of length 0 (None) or 1.       *)
(* A raised exception is the err component of a call's outcome; "none"     *)
(* means the call returned.                                                *)
(***************************************************************************)
EXTENDS Integers, Sequences, FiniteSets, TLC

VARIABLES
    owner_cls,      \* DocumentField.owner_cls of every reference field
    registry,       \* the registry module's name -> document mapping
    constructed,    \* the field objects whose __init__ has returned
    failed_before,  \* reference fields whose resolution has raised 'owner_cls is not set'
    last            \* the latest call made on the library and its outcome

vars == <<owner_cls, registry, constructed, failed_before, last>>

\* The depth of nested Python calls after which the interpreter raises
\* RuntimeError (maximum recursion depth exceeded).
MaxDepth == 12

None == <<>>
Some(v) == <<v>>

EmptyMap == <<>>
\* d[k] = v
Put(d, k, v) == (k :> v) @@ d
\* d.update(other)
Update(d, other) == other @@ d

\* name = value; Body(name): the value is computed once
Let(value, Body(_)) == CHOOSE result \in {Body(name) : name \in {value}} : TRUE

NoErr == "none"
OwnerNotSet == "ValueError: owner_cls is not set"
InvalidRegex == "ValueError: Invalid regular expression"
NotFound == "KeyError"
RecursionDepth == "RuntimeError: maximum recursion depth exceeded"

RECURSIVE_REFERENCE_CONSTANT == "self"

(***************************************************************************)
(* The field objects.                                                      *)
(***************************************************************************)
NoPolicy == None
BoolPolicy(b) == Some([is_bool |-> TRUE, value |-> b, field |-> ""])
FieldPolicy(f) == Some([is_bool |-> FALSE, value |-> FALSE, field |-> f])

Handle(d) == [is_string |-> FALSE, value |-> d]
Name(s) == [is_string |-> TRUE, value |-> s]

\* The attributes of every field class, at the defaults of the __init__ signatures.
Defaults ==
    [kind |-> "base", format |-> None,
     required |-> FALSE, title |-> None, description |-> None,
     choices |-> None, default |-> None,
     regex |-> None, min_length |-> None, max_length |-> None,
     multiple_of |-> None, minimum |-> None, maximum |-> None,
     exclusive_minimum |-> FALSE, exclusive_maximum |-> FALSE,
     items_is_list |-> FALSE, items |-> <<>>,
     min_items |-> None, max_items |-> None, unique_items |-> FALSE,
     additional_items |-> NoPolicy,
     properties |-> None, pattern_properties |-> None,
     additional_properties |-> NoPolicy,
     min_properties |-> None, max_properties |-> None,
     document_cls |-> Handle(""),
     fields |-> <<>>, field |-> ""]

StringField == [Defaults EXCEPT !.kind = "string"]
NumberField == [Defaults EXCEPT !.kind = "number"]
DictField == [Defaults EXCEPT !.kind = "dict"]
ArrayField == [Defaults EXCEPT !.kind = "array"]
DocumentField(ref) == [Defaults EXCEPT !.kind = "document", !.document_cls = ref]
OfField(keyword, fs) == [Defaults EXCEPT !.kind = keyword, !.fields = fs]

\* A dict of properties is the sequence of its (key, field) items in the
\* order the dict iterates them.
Node ==
    ("sPlain"  :> StringField) @@
    ("sPat"    :> [StringField EXCEPT !.regex = Some("^[a-z]+$"), !.min_length = Some(1)]) @@
    ("sBad"    :> [StringField EXCEPT !.regex = Some("[")]) @@
    ("sEmpty"  :> [StringField EXCEPT !.regex = Some(""), !.max_length = Some(4)]) @@
    ("eMail"   :> [StringField EXCEPT !.format = Some("email"), !.description = Some("mail")]) @@
    ("bFlag"   :> [Defaults EXCEPT !.kind = "boolean", !.title = Some("flag"),
                                   !.default = Some(TRUE)]) @@
    ("nPlain"  :> [NumberField EXCEPT !.multiple_of = Some(2), !.minimum = Some(0),
                                      !.maximum = Some(10)]) @@
    ("nExMin"  :> [NumberField EXCEPT !.minimum = Some(0), !.exclusive_minimum = TRUE]) @@
    ("iExMax"  :> [NumberField EXCEPT !.kind = "integer", !.maximum = Some(5),
                                      !.exclusive_maximum = TRUE, !.title = Some("n"),
                                      !.choices = Some(<<1, 2>>)]) @@
    ("dProps"  :> [DictField EXCEPT !.properties = Some(<<<<"a", "sPlain">>, <<"b", "nPlain">>>>)]) @@
    ("dFull"   :> [DictField EXCEPT !.properties = Some(<<<<"a", "sPlain">>>>),
                                    !.pattern_properties = Some(<<<<"^x", "bFlag">>>>),
                                    !.additional_properties = FieldPolicy("nExMin"),
                                    !.min_properties = Some(1)]) @@
    ("dPatBad" :> [DictField EXCEPT !.pattern_properties = Some(<<<<"[", "sPlain">>>>),
                                    !.additional_properties = BoolPolicy(FALSE)]) @@
    ("aList"   :> [ArrayField EXCEPT !.items_is_list = TRUE, !.items = <<"sPlain", "nPlain">>,
                                     !.additional_items = BoolPolicy(FALSE)]) @@
    ("aAdd"    :> [ArrayField EXCEPT !.items = <<"sPlain">>, !.min_items = Some(1),
                                     !.unique_items = TRUE,
                                     !.additional_items = FieldPolicy("bFlag")]) @@
    ("oneOf1"  :> OfField("oneOf", <<"sPlain", "nPlain">>)) @@
    ("not1"    :> [Defaults EXCEPT !.kind = "not", !.field = "sPlain"]) @@
    ("fSelf"   :> DocumentField(Name(RECURSIVE_REFERENCE_CONSTANT))) @@
    ("dS"      :> [DictField EXCEPT !.properties = Some(<<<<"me", "fSelf">>>>)]) @@
    ("fAB"     :> DocumentField(Name("B"))) @@
    ("dA"      :> [DictField EXCEPT !.properties = Some(<<<<"b", "fAB">>>>)]) @@
    ("fBA"     :> DocumentField(Handle("A"))) @@
    ("dB"      :> [DictField EXCEPT !.properties = Some(<<<<"a", "fBA">>>>)]) @@
    ("dL"      :> [DictField EXCEPT !.properties = Some(<<<<"x", "sPlain">>>>)]) @@
    ("fL1"     :> DocumentField(Handle("L"))) @@
    ("fL2"     :> DocumentField(Handle("L"))) @@
    ("dTwo"    :> [DictField EXCEPT !.properties = Some(<<<<"p", "fL1">>, <<"q", "fL2">>>>)]) @@
    ("aTwo"    :> [ArrayField EXCEPT !.items_is_list = TRUE, !.items = <<"fL1", "fL2">>]) @@
    ("anyTwo"  :> OfField("anyOf", <<"fL1", "fL2">>)) @@
    ("dPartial" :> [DictField EXCEPT !.properties = Some(<<<<"p", "fL1">>, <<"q", "fAB">>>>)]) @@
    ("fQualB"  :> DocumentField(Name("m.B")))

Fields == DOMAIN Node

\* The Document classes: their module, their name and the DictField holding
\* their declared fields.
Doc ==
    ("S" :> [module |-> "m", name |-> "S", field |-> "dS"]) @@
    ("A" :> [module |-> "m", name |-> "A", field |-> "dA"]) @@
    ("B" :> [module |-> "m", name |-> "B", field |-> "dB"]) @@
    ("L" :> [module |-> "m", name |-> "L", field |-> "dL"])

Docs == DOMAIN Doc

RefFields == {f \in Fields : Node[f].kind = "document"}

\* The accumulated mappings handed to a compilation: a definition id is
\* stored with a reference pointer or with a compiled schema.
Pointer(definition_id) == "$ref" :> ("#/definitions/" \o definition_id)

\* Document.get_definition_id
get_definition_id(d) == Doc[d].module \o "." \o Doc[d].name

(***************************************************************************)
(* _validate_regex: re.compile accepts the pattern or raises.  The         *)
(* patterns that occur in the field objects above are classified here.     *)
(***************************************************************************)
validate_regex(regex) == IF regex \in {"[", "("} THEN InvalidRegex ELSE NoErr

(***************************************************************************)
(* registry.get_document(name, module=None) and the DocumentField           *)
(* property document_cls.  An outcome lists the registry lookups made.      *)
(***************************************************************************)
registry_key(name, module) == IF module = None THEN name ELSE module[1] \o "." \o name

get_document(name, module) ==
    LET key == registry_key(name, module)
    IN  IF key \in DOMAIN registry
        THEN [err |-> NoErr, doc |-> registry[key], lookups |-> <<key>>]
        ELSE [err |-> NotFound, doc |-> "", lookups |-> <<key>>]

document_cls_qualified_first(f) ==
    LET ref == Node[f].document_cls
    IN  IF ~ref.is_string
        THEN [err |-> NoErr, doc |-> ref.value, lookups |-> <<>>]
        ELSE IF ref.value = RECURSIVE_REFERENCE_CONSTANT
        THEN IF owner_cls[f] = None
             THEN [err |-> OwnerNotSet, doc |-> "", lookups |-> <<>>]
             ELSE [err |-> NoErr, doc |-> owner_cls[f][1], lookups |-> <<>>]
        ELSE IF owner_cls[f] = None
             THEN [err |-> OwnerNotSet, doc |-> "", lookups |-> <<>>]
             ELSE LET first == get_document(ref.value, Some(Doc[owner_cls[f][1]].module))
                  IN  IF first.err = NoErr
                      THEN first
                      ELSE LET second == get_document(ref.value, None)
                           IN  [second EXCEPT !.lookups = first.lookups \o @]

document_cls(f) ==
    LET ref == Node[f].document_cls
    IN  IF ~ref.is_string
        THEN [err |-> NoErr, doc |-> ref.value, lookups |-> <<>>]
        ELSE IF ref.value = RECURSIVE_REFERENCE_CONSTANT
        THEN IF owner_cls[f] = None
             THEN [err |-> OwnerNotSet, doc |-> "", lookups |-> <<>>]
             ELSE [err |-> NoErr, doc |-> owner_cls[f][1], lookups |-> <<>>]
        ELSE LET first == get_document(ref.value, None)
             IN  IF first.err = NoErr
                 THEN first
                 ELSE IF owner_cls[f] = None
                 THEN [err |-> OwnerNotSet, doc |-> "", lookups |-> first.lookups]
                 ELSE LET second == get_document(ref.value, Some(Doc[owner_cls[f][1]].module))
                      IN  [second EXCEPT !.lookups = first.lookups \o @]

(***************************************************************************)
(* get_definitions_and_schema.  A call's outcome is                        *)
(*   err     the exception raised, or "none"                               *)
(*   defs    the returned definitions (the new-definitions delta)          *)
(*   schema  the returned schema                                           *)
(*   acc     the caller's `definitions` object as the call leaves it       *)
(*   calls   the documents whose compilation a DocumentField invoked       *)
(* A method body is a transformer of its frame: the local names            *)
(* definitions, nested_definitions and schema.                             *)
(***************************************************************************)
Frame(definitions, schema) ==
    [err |-> NoErr, definitions |-> definitions, nested_definitions |-> EmptyMap,
     schema |-> schema, calls |-> <<>>]

\* The callee raised: the exception propagates out of the frame.
Propagate(st, r) ==
    [st EXCEPT !.err = r.err, !.definitions = r.acc, !.calls = @ \o r.calls]

\* The callee returned: the object bound to `definitions` is as the callee left it.
Returned(st, r) ==
    [st EXCEPT !.definitions = r.acc, !.calls = @ \o r.calls]

Return(st) ==
    IF st.err = NoErr
    THEN [err |-> NoErr, defs |-> st.nested_definitions, schema |-> st.schema,
          acc |-> st.definitions, calls |-> st.calls]
    ELSE [err |-> st.err, defs |-> EmptyMap, schema |-> EmptyMap,
          acc |-> st.definitions, calls |-> st.calls]

Raise(err, definitions) ==
    [err |-> err, defs |-> EmptyMap, schema |-> EmptyMap, acc |-> definitions, calls |-> <<>>]

get_common_schema_fields(n) ==
    LET rv0 == EmptyMap
        rv1 == IF n.title # None THEN Put(rv0, "title", n.title[1]) ELSE rv0
        rv2 == IF n.description # None THEN Put(rv1, "description", n.description[1]) ELSE rv1
        rv3 == IF n.choices # None /\ Len(n.choices[1]) > 0
               THEN Put(rv2, "enum", n.choices[1]) ELSE rv2
        rv4 == IF n.default # None THEN Put(rv3, "default", n.default[1]) ELSE rv3
    IN  rv4

\* StringField.get_definitions_and_schema, then the format its subclasses add
StringSchema(n) ==
    LET s0 == Update("type" :> "string", get_common_schema_fields(n))
        s1 == IF n.regex # None /\ n.regex[1] # "" THEN Put(s0, "pattern", n.regex[1]) ELSE s0
        s2 == IF n.min_length # None THEN Put(s1, "minLength", n.min_length[1]) ELSE s1
        s3 == IF n.max_length # None THEN Put(s2, "maxLength", n.max_length[1]) ELSE s2
        s4 == IF n.format # None THEN Put(s3, "format", n.format[1]) ELSE s3
    IN  s4

BooleanSchema(n) == Update("type" :> "boolean", get_common_schema_fields(n))

NumberSchema(n) ==
    LET s0 == Update("type" :> n.kind, get_common_schema_fields(n))
        s1 == IF n.multiple_of # None THEN Put(s0, "multipleOf", n.multiple_of[1]) ELSE s0
        s2 == IF n.minimum # None THEN Put(s1, "minimum", n.minimum[1]) ELSE s1
        s3 == IF n.exclusive_minimum THEN Put(s2, "exclusiveMinumum", TRUE) ELSE s2
        s4 == IF n.maximum # None THEN Put(s3, "maximum", n.maximum[1]) ELSE s3
        s5 == IF n.exclusive_maximum THEN Put(s4, "exclusiveMaximum", TRUE) ELSE s4
    IN  s5

\* The body of the loop of DictField._process_properties, after the call of
\* the property's field returned r.
ProcessPropertiesStepInPlace(st, prop, r) ==
    [Returned(st, r) EXCEPT !.schema = Put(@, prop, r.schema),
                            !.nested_definitions = Update(@, r.defs),
                            !.definitions = Update(@, r.defs)]

ProcessPropertiesStepNoUpdate(st, prop, r) ==
    [Returned(st, r) EXCEPT !.schema = Put(@, prop, r.schema)]

ProcessPropertiesStep(st, prop, r) ==
    [Returned(st, r) EXCEPT !.schema = Put(@, prop, r.schema),
                            !.nested_definitions = Update(@, r.defs)]

\* The body of the loop over a list of items in ArrayField.get_definitions_and_schema
ArrayItemsStep(st, r) ==
    [Returned(st, r) EXCEPT !.nested_definitions = Update(@, r.defs),
                            !.schema = Append(@, r.schema)]

\* The body of the loop of OfField.get_definitions_and_schema
OfFieldStep(st, r) ==
    [Returned(st, r) EXCEPT !.nested_definitions = Update(@, r.defs),
                            !.schema = Append(@, r.schema)]

\* The test of DocumentField.get_definitions_and_schema
AlreadyDefinedNever(definitions, definition_id) == FALSE

AlreadyDefined(definitions, definition_id) ==
    definitions # EmptyMap /\ definition_id \in DOMAIN definitions

RECURSIVE get_definitions_and_schema(_, _, _)
RECURSIVE ProcessPropertiesLoop(_, _, _, _)
RECURSIVE ArrayItemsLoop(_, _, _, _)
RECURSIVE OfFieldLoop(_, _, _, _)
RECURSIVE DocumentCompile(_, _, _)

ProcessPropertiesLoop(properties, i, st, depth) ==
    IF i > Len(properties)
    THEN st
    ELSE Let(get_definitions_and_schema(properties[i][2], st.definitions, depth - 1),
             LAMBDA r :
                 IF r.err # NoErr
                 THEN Propagate(st, r)
                 ELSE Let(ProcessPropertiesStep(st, properties[i][1], r),
                          LAMBDA st1 : ProcessPropertiesLoop(properties, i + 1, st1, depth)))

\* DictField._process_properties(properties, definitions)
process_properties(properties, definitions, depth) ==
    IF depth = 0
    THEN Raise(RecursionDepth, definitions)
    ELSE Let(Frame(definitions, EmptyMap),
             LAMBDA st0 : Let(ProcessPropertiesLoop(properties, 1, st0, depth),
                              LAMBDA st1 : Return(st1)))

ArrayItemsLoop(items, i, st, depth) ==
    IF i > Len(items)
    THEN st
    ELSE Let(get_definitions_and_schema(items[i], st.definitions, depth - 1),
             LAMBDA r :
                 IF r.err # NoErr
                 THEN Propagate(st, r)
                 ELSE Let(ArrayItemsStep(st, r),
                          LAMBDA st1 : ArrayItemsLoop(items, i + 1, st1, depth)))

OfFieldLoop(fields, i, st, depth) ==
    IF i > Len(fields)
    THEN st
    ELSE Let(get_definitions_and_schema(fields[i], st.definitions, depth - 1),
             LAMBDA r :
                 IF r.err # NoErr
                 THEN Propagate(st, r)
                 ELSE Let(OfFieldStep(st, r),
                          LAMBDA st1 : OfFieldLoop(fields, i + 1, st1, depth)))

\* A nested call whose schema is stored under a key of this frame's schema
\* and whose definitions are merged into nested_definitions.
Nested(st, key, r) ==
    IF r.err # NoErr
    THEN Propagate(st, r)
    ELSE [Returned(st, r) EXCEPT !.schema = Put(@, key, r.schema),
                                 !.nested_definitions = Update(@, r.defs)]

\* A call whose returned pair becomes nested_definitions and the schema
Assigned(st, r) ==
    IF r.err # NoErr
    THEN Propagate(st, r)
    ELSE [Returned(st, r) EXCEPT !.nested_definitions = r.defs, !.schema = r.schema]

SetKey(st, key, opt) ==
    IF st.err = NoErr /\ opt # None THEN [st EXCEPT !.schema = Put(@, key, opt[1])] ELSE st

\* An additional_items / additional_properties policy: a bool is stored as
\* it is, a field is compiled.
Additional(st, key, policy, depth) ==
    IF st.err # NoErr \/ policy = None
    THEN st
    ELSE IF policy[1].is_bool
    THEN SetKey(st, key, Some(policy[1].value))
    ELSE Let(get_definitions_and_schema(policy[1].field, st.definitions, depth - 1),
             LAMBDA r : Nested(st, key, r))

ArrayItems(n, st, depth) ==
    IF n.items_is_list
    THEN ArrayItemsLoop(n.items, 1, st, depth)
    ELSE Let(get_definitions_and_schema(n.items[1], st.definitions, depth - 1),
             LAMBDA r : Assigned(st, r))

ArraySchema(n, st) ==
    IF st.err # NoErr
    THEN st
    ELSE [st EXCEPT !.schema = Update(("type" :> "array") @@ ("items" :> st.schema),
                                      get_common_schema_fields(n))]

ArrayCompile(n, definitions, depth) ==
    Let(Frame(definitions, <<>>), LAMBDA st0 :
    Let(ArrayItems(n, st0, depth), LAMBDA st1 :
    Let(ArraySchema(n, st1), LAMBDA st2 :
    Let(SetKey(st2, "minItems", n.min_items), LAMBDA st3 :
    Let(SetKey(st3, "maxItems", n.max_items), LAMBDA st4 :
    Let(SetKey(st4, "uniqueItems", IF n.unique_items THEN Some(TRUE) ELSE None), LAMBDA st5 :
    Let(Additional(st5, "additionalItems", n.additional_items, depth), LAMBDA st6 :
    Return(st6))))))))

DictProperties(n, st, depth) ==
    IF n.properties = None
    THEN st
    ELSE Let(process_properties(n.properties[1], st.definitions, depth - 1),
             LAMBDA r : Nested(st, "properties", r))

DictPatternProperties(n, st, depth) ==
    IF st.err # NoErr \/ n.pattern_properties = None
    THEN st
    ELSE IF \E i \in 1..Len(n.pattern_properties[1]) :
               validate_regex(n.pattern_properties[1][i][1]) # NoErr
    THEN [st EXCEPT !.err = InvalidRegex]
    ELSE Let(process_properties(n.pattern_properties[1], st.definitions, depth - 1),
             LAMBDA r : Nested(st, "patternProperties", r))

DictCompile(n, definitions, depth) ==
    Let(Frame(definitions, Update("type" :> "object", get_common_schema_fields(n))),
        LAMBDA st0 :
    Let(DictProperties(n, st0, depth), LAMBDA st1 :
    Let(DictPatternProperties(n, st1, depth), LAMBDA st2 :
    Let(Additional(st2, "additionalProperties", n.additional_properties, depth), LAMBDA st3 :
    Let(SetKey(st3, "minProperties", n.min_properties), LAMBDA st4 :
    Let(SetKey(st4, "maxProperties", n.max_properties), LAMBDA st5 :
    Return(st5)))))))

DocumentFieldCompile(f, definitions, depth) ==
    Let(document_cls(f), LAMBDA resolved :
        IF resolved.err # NoErr
        THEN Raise(resolved.err, definitions)
        ELSE Let(get_definition_id(resolved.doc), LAMBDA definition_id :
                 IF AlreadyDefined(definitions, definition_id)
                 THEN [err |-> NoErr, defs |-> EmptyMap, schema |-> definitions[definition_id],
                       acc |-> definitions, calls |-> <<>>]
                 ELSE Let(DocumentCompile(resolved.doc, definitions, depth - 1),
                          LAMBDA r : [r EXCEPT !.calls = <<resolved.doc>> \o @])))

OfFieldSchema(n, st) ==
    IF st.err # NoErr
    THEN st
    ELSE [st EXCEPT !.schema = Update(n.kind :> st.schema, get_common_schema_fields(n))]

OfFieldCompile(n, definitions, depth) ==
    Let(Frame(definitions, <<>>), LAMBDA st0 :
    Let(OfFieldLoop(n.fields, 1, st0, depth), LAMBDA st1 :
    Let(OfFieldSchema(n, st1), LAMBDA st2 :
    Return(st2))))

NotFieldSchema(n, st) ==
    IF st.err # NoErr
    THEN st
    ELSE [st EXCEPT !.schema = Update("not" :> st.schema, get_common_schema_fields(n))]

NotFieldCompile(n, definitions, depth) ==
    Let(Frame(definitions, EmptyMap), LAMBDA st0 :
    Let(get_definitions_and_schema(n.field, definitions, depth - 1), LAMBDA r :
    Let(Assigned(st0, r), LAMBDA st1 :
    Let(NotFieldSchema(n, st1), LAMBDA st2 :
    Return(st2)))))

Leaf(schema, definitions) ==
    [err |-> NoErr, defs |-> EmptyMap, schema |-> schema, acc |-> definitions, calls |-> <<>>]

get_definitions_and_schema(f, definitions, depth) ==
    IF depth = 0
    THEN Raise(RecursionDepth, definitions)
    ELSE CASE Node[f].kind = "string" -> Leaf(StringSchema(Node[f]), definitions)
           [] Node[f].kind = "boolean" -> Leaf(BooleanSchema(Node[f]), definitions)
           [] Node[f].kind \in {"number", "integer"} -> Leaf(NumberSchema(Node[f]), definitions)
           [] Node[f].kind = "array" -> ArrayCompile(Node[f], definitions, depth)
           [] Node[f].kind = "dict" -> DictCompile(Node[f], definitions, depth)
           [] Node[f].kind = "document" -> DocumentFieldCompile(f, definitions, depth)
           [] Node[f].kind \in {"oneOf", "anyOf", "allOf"} ->
                  OfFieldCompile(Node[f], definitions, depth)
           [] Node[f].kind = "not" -> NotFieldCompile(Node[f], definitions, depth)

(***************************************************************************)
(* Document.get_definitions_and_schema.  The document registers its own    *)
(* id, as a pointer, in a copy of the accumulated definitions before its   *)
(* fields are compiled, and returns its schema under its id in the         *)
(* returned definitions together with a pointer to it.                     *)
(***************************************************************************)
DocumentCompile(d, definitions, depth) ==
    IF depth = 0
    THEN Raise(RecursionDepth, definitions)
    ELSE Let(get_definition_id(d), LAMBDA definition_id :
         Let(Put(definitions, definition_id, Pointer(definition_id)), LAMBDA in_flight :
         Let(get_definitions_and_schema(Doc[d].field, in_flight, depth - 1), LAMBDA r :
             IF r.err # NoErr
             THEN [err |-> r.err, defs |-> EmptyMap, schema |-> EmptyMap,
                   acc |-> definitions, calls |-> r.calls]
             ELSE [err |-> NoErr, defs |-> Put(r.defs, definition_id, r.schema),
                   schema |-> Pointer(definition_id),
                   acc |-> definitions, calls |-> r.calls])))

\* BaseField.get_schema
get_schema(f, depth) ==
    Let(get_definitions_and_schema(f, EmptyMap, depth - 1), LAMBDA r :
        IF r.err = NoErr /\ r.defs # EmptyMap
        THEN [r EXCEPT !.schema = Put(@, "definitions", r.defs)]
        ELSE r)

(***************************************************************************)
(* walk.  A generator is represented by what iterating it to the end       *)
(* gives: the fields yielded (out), the exception that ended it (err) and  *)
(* the descents made from reference fields into their documents.           *)
(***************************************************************************)
InTuple(x, tuple) == \E i \in 1..Len(tuple) : tuple[i] = x

Values(properties) == [i \in 1..Len(properties) |-> properties[i][2]]

\* The test of DocumentField.walk
ShouldDescendUnguarded(through_document_fields, doc, visited_documents) ==
    through_document_fields

ShouldDescend(through_document_fields, doc, visited_documents) ==
    through_document_fields /\ ~InTuple(doc, visited_documents)

RECURSIVE walk(_, _, _, _)
RECURSIVE WalkEach(_, _, _, _, _)
RECURSIVE DocumentWalk(_, _, _, _)

Yielded(out) == [err |-> NoErr, out |-> out, descents |-> <<>>]

\* The generator w runs to its end, then the generator rest
Then(w, rest) ==
    [err |-> rest.err, out |-> w.out \o rest.out, descents |-> w.descents \o rest.descents]

\* for field in fields: for field_ in field.walk(...): yield field_
WalkEach(fields, i, through_document_fields, visited_documents, depth) ==
    IF i > Len(fields)
    THEN Yielded(<<>>)
    ELSE Let(walk(fields[i], through_document_fields, visited_documents, depth - 1),
             LAMBDA w :
                 IF w.err # NoErr
                 THEN w
                 ELSE Let(WalkEach(fields, i + 1, through_document_fields,
                                   visited_documents, depth),
                          LAMBDA rest : Then(w, rest)))

ArrayWalk(f, through_document_fields, visited_documents, depth) ==
    Let(WalkEach(Node[f].items, 1, through_document_fields, visited_documents, depth),
        LAMBDA rest : Then(Yielded(<<f>>), rest))

FieldsToVisit(n) ==
    LET v0 == <<>>
        v1 == IF n.properties # None THEN v0 \o Values(n.properties[1]) ELSE v0
        v2 == IF n.pattern_properties # None THEN v1 \o Values(n.pattern_properties[1]) ELSE v1
        v3 == IF n.additional_properties # None /\ ~n.additional_properties[1].is_bool
              THEN v2 \o <<n.additional_properties[1].field>> ELSE v2
    IN  v3

DictWalk(f, through_document_fields, visited_documents, depth) ==
    Let(FieldsToVisit(Node[f]), LAMBDA fields_to_visit :
    Let(WalkEach(fields_to_visit, 1, through_document_fields, visited_documents, depth),
        LAMBDA rest : Then(Yielded(<<f>>), rest)))

Descent(f, doc, through_document_fields, visited_documents, passed) ==
    [err |-> NoErr, out |-> <<f>>,
     descents |-> <<[field |-> f, doc |-> doc,
                     through_document_fields |-> through_document_fields,
                     visited_documents |-> visited_documents, passed |-> passed]>>]

DocumentFieldWalk(f, through_document_fields, visited_documents, depth) ==
    IF ~through_document_fields
    THEN Yielded(<<f>>)
    ELSE Let(document_cls(f), LAMBDA resolved :
             IF resolved.err # NoErr
             THEN [err |-> resolved.err, out |-> <<f>>, descents |-> <<>>]
             ELSE IF ShouldDescend(through_document_fields, resolved.doc, visited_documents)
             THEN Let(Append(visited_documents, resolved.doc), LAMBDA passed :
                  Let(DocumentWalk(resolved.doc, through_document_fields, passed, depth - 1),
                      LAMBDA rest :
                          Then(Descent(f, resolved.doc, through_document_fields,
                                       visited_documents, passed), rest)))
             ELSE Yielded(<<f>>))

OfFieldWalk(f, through_document_fields, visited_documents, depth) ==
    Let(WalkEach(Node[f].fields, 1, through_document_fields, visited_documents, depth),
        LAMBDA rest : Then(Yielded(<<f>>), rest))

walk(f, through_document_fields, visited_documents, depth) ==
    IF depth = 0
    THEN [err |-> RecursionDepth, out |-> <<>>, descents |-> <<>>]
    ELSE CASE Node[f].kind = "array" ->
                  ArrayWalk(f, through_document_fields, visited_documents, depth)
           [] Node[f].kind = "dict" ->
                  DictWalk(f, through_document_fields, visited_documents, depth)
           [] Node[f].kind = "document" ->
                  DocumentFieldWalk(f, through_document_fields, visited_documents, depth)
           [] Node[f].kind \in {"oneOf", "anyOf", "allOf"} ->
                  OfFieldWalk(f, through_document_fields, visited_documents, depth)
           [] OTHER -> Yielded(<<f>>)

\* Document.walk: the walk of the field holding the document's declared fields
DocumentWalk(d, through_document_fields, visited_documents, depth) ==
    IF depth = 0
    THEN [err |-> RecursionDepth, out |-> <<>>, descents |-> <<>>]
    ELSE walk(Doc[d].field, through_document_fields, visited_documents, depth - 1)

(***************************************************************************)
(* Construction.  StringField.__init__ validates its regex;                *)
(* DictField.__init__ stores its arguments.                                *)
(***************************************************************************)
StringFieldInit(n) == IF n.regex # None THEN validate_regex(n.regex[1]) ELSE NoErr

DictFieldInit(n) == NoErr

FieldInit(f) ==
    CASE Node[f].kind = "string" -> StringFieldInit(Node[f])
      [] Node[f].kind = "dict" -> DictFieldInit(Node[f])
      [] OTHER -> NoErr

(***************************************************************************)
(* The state machine: the calls a program makes on the library.            *)
(***************************************************************************)
\* The fields a program constructs while the model runs; the others exist
\* from the start.
Candidates == {"sPat", "sBad", "dPatBad"}

\* The reference fields holding a string, and the document declaring each
DeclaredIn ==
    ("fSelf" :> "S") @@ ("fAB" :> "A") @@ ("fQualB" :> "A")

\* A, S and L are declared from the start; A names B before B is declared.
Declared(d) == registry_key(Doc[d].name, Some(Doc[d].module)) \in DOMAIN registry

AccChoices ==
    { EmptyMap,
      get_definition_id("L") :> Pointer(get_definition_id("L")),
      get_definition_id("L") :> ("type" :> "object"),
      get_definition_id("S") :> Pointer(get_definition_id("S")),
      (get_definition_id("A") :> ("type" :> "object")) @@
          (get_definition_id("B") :> Pointer(get_definition_id("B"))) }

VisitedChoices == { <<>>, <<"S">>, <<"A">>, <<"L", "B">> }

NoCall ==
    [op |-> "none", node |-> "", doc |-> "", definitions |-> EmptyMap,
     through_document_fields |-> FALSE, visited_documents |-> <<>>,
     err |-> NoErr, defs |-> EmptyMap, schema |-> EmptyMap, acc |-> EmptyMap,
     calls |-> <<>>, out |-> <<>>, descents |-> <<>>, lookups |-> <<>>]

Init ==
    /\ owner_cls = [f \in RefFields |-> None]
    /\ registry = ("m.S" :> "S") @@ ("m.A" :> "A") @@ ("m.L" :> "L")
    /\ constructed = Fields \ Candidates
    /\ failed_before = {}
    /\ last = NoCall

SetOwner(f, d) ==
    /\ owner_cls' = [owner_cls EXCEPT ![f] = Some(d)]
    /\ last' = [NoCall EXCEPT !.op = "set_owner", !.node = f, !.doc = d]
    /\ UNCHANGED <<registry, constructed, failed_before>>

\* registry.put_document(name, document_cls, module), called when a Document
\* class is declared
PutDocument(d) ==
    /\ ~Declared(d)
    /\ registry' = Put(registry, registry_key(Doc[d].name, Some(Doc[d].module)), d)
    /\ last' = [NoCall EXCEPT !.op = "put_document", !.doc = d]
    /\ UNCHANGED <<owner_cls, constructed, failed_before>>

Construct(f) ==
    /\ f \notin constructed
    /\ \E err \in {FieldInit(f)} :
           /\ constructed' = IF err = NoErr THEN constructed \cup {f} ELSE constructed
           /\ last' = [NoCall EXCEPT !.op = "construct", !.node = f, !.err = err]
    /\ UNCHANGED <<owner_cls, registry, failed_before>>

Outcome(op, f, d, definitions, r) ==
    [NoCall EXCEPT !.op = op, !.node = f, !.doc = d, !.definitions = definitions,
                   !.err = r.err, !.defs = r.defs, !.schema = r.schema,
                   !.acc = r.acc, !.calls = r.calls]

Compile(f, definitions) ==
    /\ f \in constructed
    /\ \E r \in {get_definitions_and_schema(f, definitions, MaxDepth)} :
           last' = Outcome("compile", f, "", definitions, r)
    /\ UNCHANGED <<owner_cls, registry, constructed, failed_before>>

CompileDocument(d, definitions) ==
    /\ Declared(d)
    /\ \E r \in {DocumentCompile(d, definitions, MaxDepth)} :
           last' = Outcome("compile_document", "", d, definitions, r)
    /\ UNCHANGED <<owner_cls, registry, constructed, failed_before>>

GetSchema(f) ==
    /\ f \in constructed
    /\ \E r \in {get_schema(f, MaxDepth)} :
           last' = Outcome("get_schema", f, "", EmptyMap, r)
    /\ UNCHANGED <<owner_cls, registry, constructed, failed_before>>

Walk(f, through_document_fields, visited_documents) ==
    /\ f \in constructed
    /\ \E w \in {walk(f, through_document_fields, visited_documents, MaxDepth)} :
           last' = [NoCall EXCEPT !.op = "walk", !.node = f,
                                  !.through_document_fields = through_document_fields,
                                  !.visited_documents = visited_documents,
                                  !.err = w.err, !.out = w.out, !.descents = w.descents]
    /\ UNCHANGED <<owner_cls, registry, constructed, failed_before>>

\* A read of the property document_cls
Resolve(f) ==
    /\ \E r \in {document_cls(f)} :
           /\ last' = [NoCall EXCEPT !.op = "document_cls", !.node = f, !.err = r.err,
                                     !.doc = r.doc, !.lookups = r.lookups]
           /\ failed_before' = IF r.err = OwnerNotSet
                               THEN failed_before \cup {f}
                               ELSE failed_before
    /\ UNCHANGED <<owner_cls, registry, constructed>>

\* Compilation
Next ==
    \/ \E f \in DOMAIN DeclaredIn : SetOwner(f, DeclaredIn[f])
    \/ \E d \in Docs : PutDocument(d)
    \/ \E f \in Fields, definitions \in AccChoices : Compile(f, definitions)
    \/ \E d \in Docs, definitions \in AccChoices : CompileDocument(d, definitions)
    \/ \E f \in Fields : GetSchema(f)

Spec == Init /\ [][Next]_vars

\* Traversal
NextWalk ==
    \/ \E f \in DOMAIN DeclaredIn : SetOwner(f, DeclaredIn[f])
    \/ \E d \in Docs : PutDocument(d)
    \/ \E f \in Fields, through_document_fields \in BOOLEAN,
          visited_documents \in VisitedChoices :
              Walk(f, through_document_fields, visited_documents)

SpecWalk == Init /\ [][NextWalk]_vars

\* Resolution of references
NextResolve ==
    \/ \E f \in DOMAIN DeclaredIn : SetOwner(f, DeclaredIn[f])
    \/ \E d \in Docs : PutDocument(d)
    \/ \E f \in RefFields : Resolve(f)

SpecResolve == Init /\ [][NextResolve]_vars

\* Construction followed by compilation
NextConstruct ==
    \/ \E f \in Candidates : Construct(f)
    \/ \E f \in Fields, definitions \in AccChoices : Compile(f, definitions)

SpecConstruct == Init /\ [][NextConstruct]_vars

(***************************************************************************)
(* Properties.                                                             *)
(***************************************************************************)
IsCompile == last.op \in {"compile", "compile_document", "get_schema"}

\* C1: compiling the self-referential document S (its field fSelf holds the
\* token 'self' and its owner is bound) returns, never exhausting the call
\* depth; the returned definitions have exactly one entry, keyed by S's
\* definition id, and the reference nested in that entry is the pointer to
\* the same id.
C1_SelfReferentialDocument ==
    (last.op = "compile_document" /\ last.doc = "S")
        => /\ last.err # RecursionDepth
           /\ owner_cls["fSelf"] = Some("S")
                  => /\ last.err = NoErr
                     /\ DOMAIN last.defs = {get_definition_id("S")}
                     /\ last.defs[get_definition_id("S")]["properties"]["me"]
                            = Pointer(get_definition_id("S"))

C1_Witness ==
    /\ last.op = "compile_document" /\ last.doc = "S"
    /\ owner_cls["fSelf"] = Some("S")
    /\ last.definitions = EmptyMap
    /\ last.err = NoErr
    /\ DOMAIN last.defs[get_definition_id("S")]["properties"]["me"] = {"$ref"}

\* C2: with A's reference to B bound and B declared, a fresh compilation of
\* A, and likewise of B, returns definitions whose keys are exactly the ids
\* of A and B, the other document having been compiled once.
C2_MutualReference ==
    (/\ last.op = "compile_document" /\ last.doc \in {"A", "B"}
     /\ last.definitions = EmptyMap
     /\ owner_cls["fAB"] = Some("A") /\ Declared("B"))
        => /\ last.err = NoErr
           /\ DOMAIN last.defs = {get_definition_id("A"), get_definition_id("B")}
           /\ last.calls = IF last.doc = "A" THEN <<"B">> ELSE <<"A">>

C2_Witness ==
    /\ last.op = "compile_document" /\ last.doc = "B"
    /\ last.definitions = EmptyMap
    /\ owner_cls["fAB"] = Some("A")
    /\ last.err = NoErr
    /\ DOMAIN last.defs = {get_definition_id("A"), get_definition_id("B")}

\* C3: a compiled reference field whose document's definition id is a key of
\* the accumulated mapping returns no new definitions and the pointer to
\* that id, whatever is stored under the key; otherwise it returns what
\* compiling the document with the same mapping returns.
C3_ReferenceIsPointer ==
    (/\ last.op = "compile" /\ last.node \in RefFields
     /\ document_cls(last.node).err = NoErr)
        => LET doc == document_cls(last.node).doc
               definition_id == get_definition_id(doc)
           IN  IF definition_id \in DOMAIN last.definitions
               THEN /\ last.err = NoErr
                    /\ last.defs = EmptyMap
                    /\ last.schema = Pointer(definition_id)
               ELSE \E r \in {DocumentCompile(doc, last.definitions, MaxDepth - 1)} :
                        /\ last.err = r.err
                        /\ last.defs = r.defs
                        /\ last.schema = r.schema

\* C4: a walk never exhausts the call depth, cyclic documents included;
\* every descent from a reference field happened with descent requested and
\* the document absent from the visited documents it was given, and handed
\* down those documents with the document added; without descent requested
\* a reference field yields itself alone.
C4_GuardedDescent ==
    last.op = "walk"
        => /\ last.err # RecursionDepth
           /\ \A i \in 1..Len(last.descents) :
                  /\ last.descents[i].through_document_fields
                  /\ ~InTuple(last.descents[i].doc, last.descents[i].visited_documents)
                  /\ last.descents[i].passed
                         = last.descents[i].visited_documents \o <<last.descents[i].doc>>
           /\ (~last.through_document_fields /\ last.node \in RefFields)
                  => last.out = <<last.node>>

C4_Witness ==
    /\ last.op = "walk" /\ last.node = "dA"
    /\ last.through_document_fields
    /\ last.err = NoErr
    /\ Len(last.descents) = 2
    /\ last.out = <<"dA", "fAB", "dB", "fBA", "dA", "fAB">>

\* The order of traversal as stated: the node, then its descendants depth
\* first; an object's properties, pattern properties and additional
\* properties schema; an array's items and additional items schema; a
\* combinator's children.
RECURSIVE TraverseOrder(_)
RECURSIVE TraverseAll(_, _)

TraverseAll(fields, i) ==
    IF i > Len(fields) THEN <<>> ELSE TraverseOrder(fields[i]) \o TraverseAll(fields, i + 1)

TraverseOrder(f) ==
    LET n == Node[f]
        policy(p) == IF p # None /\ ~p[1].is_bool THEN <<p[1].field>> ELSE <<>>
        children ==
            CASE n.kind = "dict" ->
                     (IF n.properties # None THEN Values(n.properties[1]) ELSE <<>>)
                     \o (IF n.pattern_properties # None
                         THEN Values(n.pattern_properties[1]) ELSE <<>>)
                     \o policy(n.additional_properties)
              [] n.kind = "array" -> n.items \o policy(n.additional_items)
              [] n.kind \in {"oneOf", "anyOf", "allOf"} -> n.fields
              [] n.kind = "not" -> <<n.field>>
              [] OTHER -> <<>>
    IN  <<f>> \o TraverseAll(children, 1)

\* C5: a walk that does not descend into documents yields the node and then
\* every descendant in the stated order; an object with two declared
\* properties yields itself and the two property fields.
C5_TraversalOrder ==
    (last.op = "walk" /\ ~last.through_document_fields)
        => /\ last.err = NoErr
           /\ last.out = TraverseOrder(last.node)
           /\ last.node = "dProps" => last.out = <<"dProps", "sPlain", "nPlain">>

\* What a read of document_cls gives, from the field, its owner and the
\* registry as they are at the read: a handle itself; for the token 'self'
\* the owner, or the binding error when there is none; for a name the
\* unqualified lookup first and, only when that finds nothing, the binding
\* error when there is no owner, else the lookup qualified by the owner's
\* module, whose failure is the not-found error.
ResolutionRule ==
    LET ref == Node[last.node].document_cls
        owner == owner_cls[last.node]
        qualified == Doc[owner[1]].module \o "." \o ref.value
    IN  /\ ~ref.is_string
               => last.err = NoErr /\ last.doc = ref.value /\ last.lookups = <<>>
        /\ (ref.is_string /\ ref.value = "self")
               => /\ last.lookups = <<>>
                  /\ owner = None => last.err = OwnerNotSet
                  /\ owner # None => last.err = NoErr /\ last.doc = owner[1]
        /\ (ref.is_string /\ ref.value # "self")
               => IF ref.value \in DOMAIN registry
                  THEN /\ last.err = NoErr /\ last.doc = registry[ref.value]
                       /\ last.lookups = <<ref.value>>
                  ELSE IF owner = None
                  THEN last.err = OwnerNotSet /\ last.lookups = <<ref.value>>
                  ELSE /\ last.lookups = <<ref.value, qualified>>
                       /\ IF qualified \in DOMAIN registry
                          THEN last.err = NoErr /\ last.doc = registry[qualified]
                          ELSE last.err = NotFound

\* The field read had raised the binding error before and has its owner now
ReadAgainBound == last.node \in failed_before /\ owner_cls[last.node] # None

\* C6 as stated: every read of document_cls follows the resolution rule, and
\* a field whose owner was bound after a failed read resolves on the next
\* read.
C6_ResolvesOnceBound ==
    last.op = "document_cls"
        => /\ ResolutionRule
           /\ ReadAgainBound => last.err = NoErr

\* C6, amended: every read of document_cls follows the resolution rule, and
\* a field whose owner was bound after a read that raised the binding error
\* does not raise it on the next read: the token 'self' resolves to the
\* owner, and a name resolves unless the registry holds it neither
\* unqualified nor qualified by the owner's module, which is the not-found
\* error.
C6_Resolution ==
    last.op = "document_cls"
        => /\ ResolutionRule
           /\ ReadAgainBound
                  => LET ref == Node[last.node].document_cls
                         qualified == Doc[owner_cls[last.node][1]].module \o "." \o ref.value
                     IN  IF ref.value # "self" /\ {ref.value, qualified} \cap DOMAIN registry = {}
                         THEN last.err = NotFound
                         ELSE last.err = NoErr

C6_Witness ==
    /\ last.op = "document_cls" /\ last.node = "fAB"
    /\ "fAB" \in failed_before
    /\ last.lookups = <<"B", "m.B">>
    /\ last.err = NoErr /\ last.doc = "B"

\* C7: every constructed field holds valid regular expressions only, as its
\* pattern and as its pattern-property keys, and no compilation raises the
\* invalid-regular-expression error.
C7_RegexRejectedAtConstruction ==
    /\ \A f \in constructed :
           /\ Node[f].regex # None => validate_regex(Node[f].regex[1]) = NoErr
           /\ Node[f].pattern_properties # None
                  => \A i \in 1..Len(Node[f].pattern_properties[1]) :
                         validate_regex(Node[f].pattern_properties[1][i][1]) = NoErr
    /\ last.op = "compile" => last.err # InvalidRegex

\* C8: after a compilation, returned or failed, the mapping the caller
\* passed is what it was before the call.
C8_CallerMappingUnchanged ==
    IsCompile => last.acc = last.definitions

C8_Witness ==
    /\ last.op = "compile" /\ last.node = "dPartial"
    /\ last.definitions # EmptyMap
    /\ last.calls = <<"L">>
    /\ last.err = NotFound
    /\ last.acc = last.definitions

\* C9: within one compilation no document is compiled from reference fields
\* more than once.
C9_CompiledOnce ==
    IsCompile
        => \A d \in Docs : Cardinality({i \in 1..Len(last.calls) : last.calls[i] = d}) <= 1

NumberKeywords ==
    {"type", "title", "description", "enum", "default", "multipleOf", "minimum", "maximum",
     "exclusiveMinimum", "exclusiveMaximum"}

\* C10: the schema of a number or integer field has JSON Schema keywords
\* only, exclusiveMinimum: true exactly when exclusive_minimum is set and
\* exclusiveMaximum: true exactly when exclusive_maximum is set.
C10_NumberKeywords ==
    (last.op = "compile" /\ Node[last.node].kind \in {"number", "integer"})
        => /\ DOMAIN last.schema \subseteq NumberKeywords
           /\ "exclusiveMinimum" \in DOMAIN last.schema <=> Node[last.node].exclusive_minimum
           /\ "exclusiveMaximum" \in DOMAIN last.schema <=> Node[last.node].exclusive_maximum
           /\ \A k \in DOMAIN last.schema \cap {"exclusiveMinimum", "exclusiveMaximum"} :
                  last.schema[k] = TRUE

====
